---- MODULE Spec2Model ----
(***************************************************************************)
(* Model of the search_meetings pipeline of mcp-fathom-server              *)
(* (src/src/index.ts, handleMCPRequest, lines 58-596) and of the record    *)
(* source it calls (FathomClient.listMeetings).                            *)
(*                                                                         *)
(* Strings are sequences of one-character strings, so that toLowerCase,    *)
(* includes, the regular expressions and the replacements of the planner   *)
(* are computed character by character.  The JavaScript values null and    *)
(* undefined are the value Undefined.                                      *)
(*                                                                         *)
(* The three size constants of the code (1000 records fetched at most,     *)
(* limit capped at 100, limit 50 by default) are scaled down, keeping      *)
(* their order, so that the record lists stay enumerable.                  *)
(***************************************************************************)
EXTENDS Integers, Sequences, FiniteSets, TLC

(***************************************************************************)
(* JavaScript values and string primitives                                 *)
(***************************************************************************)

\* null / undefined: a tuple that no string and no list of the model is equal
\* to.  It is longer than every list of the model, which keeps it comparable
\* with the strings and with the lists it shares a set with.
Undefined ==
  <<"undefined", "undefined", "undefined", "undefined", "undefined",
    "undefined", "undefined", "undefined", "undefined", "undefined">>

UpperChars ==
  <<"A","B","C","D","E","F","G","H","I","J","K","L","M",
    "N","O","P","Q","R","S","T","U","V","W","X","Y","Z">>

LowerChars ==
  <<"a","b","c","d","e","f","g","h","i","j","k","l","m",
    "n","o","p","q","r","s","t","u","v","w","x","y","z">>

DigitChars == <<"0","1","2","3","4","5","6","7","8","9">>

IsUpper(c) == \E i \in 1..26 : UpperChars[i] = c

\* String.prototype.toLowerCase, one character
LowerChar(c) ==
  IF IsUpper(c) THEN LowerChars[CHOOSE i \in 1..26 : UpperChars[i] = c] ELSE c

\* String.prototype.toLowerCase
RECURSIVE toLowerCase(_)
toLowerCase(s) ==
  IF s = <<>> THEN <<>> ELSE <<LowerChar(Head(s))>> \o toLowerCase(Tail(s))

\* String.prototype.includes
includes(s, t) ==
  \E i \in 0..(Len(s) - Len(t)) : SubSeq(s, i + 1, i + Len(t)) = t

\* Array.prototype.filter is SelectSeq, Array.prototype.some is \E over the
\* indices.

\* Array.prototype.slice(begin, end) for integer arguments (negative ones
\* count from the end of the array)
sliceIndex(n, k) == IF k < 0 THEN (IF n + k < 0 THEN 0 ELSE n + k)
                    ELSE (IF k > n THEN n ELSE k)

slice(seq, begin, end) ==
  SubSeq(seq, sliceIndex(Len(seq), begin) + 1, sliceIndex(Len(seq), end))

\* Array.prototype.slice(begin)
sliceFrom(seq, begin) == slice(seq, begin, Len(seq))

\* [...new Set(seq)]: first occurrences, in order
RECURSIVE uniq(_)
uniq(seq) ==
  IF seq = <<>> THEN <<>>
  ELSE LET init == uniq(SubSeq(seq, 1, Len(seq) - 1))
           last == seq[Len(seq)]
       IN IF \E i \in 1..Len(init) : init[i] = last THEN init ELSE Append(init, last)

(***************************************************************************)
(* Regular-expression helpers.  A character class is the set of its        *)
(* characters.                                                             *)
(***************************************************************************)

\* [a-z] under the i flag
Letters == {UpperChars[i] : i \in 1..26} \cup {LowerChars[i] : i \in 1..26}

\* \d
Digits == {DigitChars[i] : i \in 1..10}

\* \w
WordChars == Letters \cup Digits \cup {"_"}

\* \s (the white space a JSON string can carry)
SpaceChars == {" ", "\t", "\n", "\r"}

\* [\w.+-]
EmailLocalChars == WordChars \cup {".", "+", "-"}

\* [\w.-]
EmailHostChars == WordChars \cup {".", "-"}

\* [a-z0-9-] under the i flag
DomainLabelChars == Letters \cup Digits \cup {"-"}

\* the characters [^"')] leaves out
AgentStopChars == {"\"", "'", ")"}

\* the characters the alternative \)|\]|"|' of domainRegex ends on, which are
\* the ones /[)\]"']$/ strips
ClosingChars == {")", "]", "\"", "'"}

IsWord(c) == c \in WordChars

IsSpace(c) == c \in SpaceChars

\* The end of the longest run of characters of a class that starts at i
\* (i - 1 when s[i] is not of the class): a greedy X*.
RunEnd(s, i, chars) ==
  CHOOSE j \in (i - 1)..Len(s) :
    /\ \A k \in i..j : s[k] \in chars
    /\ j = Len(s) \/ s[j + 1] \notin chars

\* The same for a negated class: a greedy [^...]*.
RunEndNot(s, i, chars) ==
  CHOOSE j \in (i - 1)..Len(s) :
    /\ \A k \in i..j : s[k] \notin chars
    /\ j = Len(s) \/ s[j + 1] \in chars

\* \b between s[i - 1] and s[i]
WordBoundary(s, i) ==
  LET before == i > 1 /\ i - 1 <= Len(s) /\ IsWord(s[i - 1])
      after  == i >= 1 /\ i <= Len(s) /\ IsWord(s[i])
  IN before # after

Min(S) == CHOOSE x \in S : \A y \in S : x <= y
Max(S) == CHOOSE x \in S : \A y \in S : y <= x

DigitVal(c) == (CHOOSE i \in 1..10 : DigitChars[i] = c) - 1

\* parseInt of a string of decimal digits
RECURSIVE parseInt(_)
parseInt(ds) ==
  IF ds = <<>> THEN 0
  ELSE 10 * parseInt(SubSeq(ds, 1, Len(ds) - 1)) + DigitVal(ds[Len(ds)])

\* word \s+ (\d+) matched at position i: the digits, or <<>> when it does
\* not match there
KeywordCountAt(s, i, word) ==
  LET e  == i + Len(word) - 1
      ws == RunEnd(s, e + 1, SpaceChars)
      ds == RunEnd(s, ws + 1, Digits)
  IN IF e <= Len(s) /\ SubSeq(s, i, e) = word /\ ws >= e + 1 /\ ds >= ws + 1
     THEN SubSeq(s, ws + 1, ds) ELSE <<>>

\* the first alternative that matched: x || y over captures, <<>> standing
\* for a capture that did not take part
orElse(x, y) == IF x # <<>> THEN x ELSE y

\* /last\s+(\d+)|derniers?\s+(\d+)/ at position i: lastMatch[1] || lastMatch[2]
LastCountAt(s, i) ==
  orElse(KeywordCountAt(s, i, <<"l","a","s","t">>),
         orElse(KeywordCountAt(s, i, <<"d","e","r","n","i","e","r","s">>),
                KeywordCountAt(s, i, <<"d","e","r","n","i","e","r">>)))

\* String.prototype.match without the g flag, given the capture of the match
\* at every position (<<>> where the expression does not match): the capture
\* of the leftmost match, Undefined (null) without a match
leftmost(groups) ==
  LET I == {i \in DOMAIN groups : groups[i] # <<>>}
  IN IF I = {} THEN Undefined ELSE groups[Min(I)]

\* searchTerm.match(/last\s+(\d+)|derniers?\s+(\d+)/): the digits of the
\* leftmost match, Undefined (null) without a match
lastMatch(s) == leftmost([i \in 1..Len(s) |-> LastCountAt(s, i)])

\* lastMatch ? parseInt(...) : null.  null is the number 0 here: the code
\* only tests requestedLastCount for truthiness, which 0 and null share.
parseCount(digits) == IF digits = Undefined THEN 0 ELSE parseInt(digits)

requestedLastCountOf(s) == parseCount(lastMatch(s))

\* /@agent\(["']?([^"')]+)["']?\)/ at position i: the group, or <<>>
AgentAt(s, i) ==
  LET word  == <<"@","a","g","e","n","t","(">>
      p     == i + Len(word)
      quote == {"\"", "'"}
      q     == IF p <= Len(s) /\ s[p] \in quote THEN p + 1 ELSE p
      g     == RunEndNot(s, q, AgentStopChars)
      r     == IF g + 1 <= Len(s) /\ s[g + 1] \in quote THEN g + 2 ELSE g + 1
  IN IF /\ p - 1 <= Len(s)
        /\ SubSeq(s, i, p - 1) = word
        /\ q <= Len(s)
        /\ g >= q
        /\ r <= Len(s)
        /\ s[r] = ")"
     THEN SubSeq(s, q, g) ELSE <<>>

\* searchTerm.match(/@agent\(["']?([^"')]+)["']?\)/): agentEmail, Undefined
\* (null) without a match
agentMatch(s) == leftmost([i \in 1..Len(s) |-> AgentAt(s, i)])

\* \.[a-z]{2,} at the dot position k, l being the end of the letters after
\* it; needEnd adds the closing \b of emailRegex
HostDotAt(s, k, l, needEnd) ==
  /\ s[k] = "."
  /\ l >= k + 2
  /\ needEnd => WordBoundary(s, l + 1)

\* The host part [\w.-]+\.[a-z]{2,} that starts at h: the positions k of the
\* dot that a backtracking match can end the greedy [\w.-]+ on.
HostDots(s, h, needEnd) ==
  {k \in (h + 1)..RunEnd(s, h, EmailHostChars) :
     HostDotAt(s, k, RunEnd(s, k + 1, Letters), needEnd)}

\* The end of the host part, which the greedy [\w.-]+ ends on the last of
\* the dots; 0 without such a dot
HostEnd(s, dots) ==
  IF dots = {} THEN 0 ELSE RunEnd(s, Max(dots) + 1, Letters)

\* emailRegex at position i, a being the end of the greedy [\w.+-]* there
EmailEndAfterLocal(s, i, a) ==
  IF /\ WordBoundary(s, i)
     /\ a >= i
     /\ a + 1 <= Len(s)
     /\ s[a + 1] = "@"
  THEN HostEnd(s, HostDots(s, a + 2, TRUE))
  ELSE 0

\* emailRegex /\b[\w.+-]+@[\w.-]+\.[a-z]{2,}\b/gi at position i: the index of
\* the last character matched, 0 when it does not match there
EmailEnd(s, i) == EmailEndAfterLocal(s, i, RunEnd(s, i, EmailLocalChars))

\* domainRegex /\b([a-z0-9-]+\.[a-z]{2,})(?:\b|\s|\)|\]|"|')/gi at position
\* i: the index of the last character matched, 0 when it does not match
DomainEnd(s, i) ==
  LET a == RunEnd(s, i, DomainLabelChars)
      l == RunEnd(s, a + 2, Letters)
  IN IF /\ WordBoundary(s, i)
        /\ a >= i
        /\ a + 1 <= Len(s)
        /\ s[a + 1] = "."
        /\ l >= a + 3
     THEN IF WordBoundary(s, l + 1) THEN l
          ELSE IF l + 1 <= Len(s)
                  /\ (IsSpace(s[l + 1]) \/ s[l + 1] \in ClosingChars)
               THEN l + 1 ELSE 0
     ELSE 0

\* String.prototype.match with a /g regular expression, given the end of the
\* match at every position (0 where the expression does not match): the
\* successive leftmost matches from position p on (<<>> stands for the null
\* of no match, which the code replaces by [])
RECURSIVE matchAll(_, _, _)
matchAll(s, p, ends) ==
  LET I == {i \in p..Len(s) : ends[i] > 0}
  IN IF I = {} THEN <<>>
     ELSE <<SubSeq(s, Min(I), ends[Min(I)])>> \o matchAll(s, ends[Min(I)] + 1, ends)

\* String.prototype.trim
trim(s) ==
  LET I == {i \in 1..Len(s) : ~IsSpace(s[i])}
  IN IF I = {} THEN <<>> ELSE SubSeq(s, Min(I), Max(I))

\* d.replace(/[)\]"']$/, '')
stripClosing(d) ==
  IF d # <<>> /\ d[Len(d)] \in ClosingChars
  THEN SubSeq(d, 1, Len(d) - 1) ELSE d

\* Array.prototype.map over a list of strings
RECURSIVE mapCleanDomain(_)
mapCleanDomain(ds) ==
  IF ds = <<>> THEN <<>>
  ELSE <<stripClosing(trim(Head(ds)))>> \o mapCleanDomain(Tail(ds))

\* Array.from(new Set(searchTerm.match(emailRegex) || []))
foundEmailsOf(s) ==
  uniq(matchAll(s, 1, [i \in 1..Len(s) |-> EmailEnd(s, i)]))

\* Array.from(new Set((searchTerm.match(domainRegex) || []).map(...)))
foundDomainsOf(s) ==
  uniq(mapCleanDomain(matchAll(s, 1, [i \in 1..Len(s) |-> DomainEnd(s, i)])))

\* /@([\w.-]+\.[a-z]{2,})/i at the position of an @: the dots its host part
\* can end on
HostDotsAfterAt(email, i) ==
  IF email[i] = "@" THEN HostDots(email, i + 1, FALSE) ELSE {}

\* The group of the leftmost match, given the dots of every position;
\* Undefined (null) without a match
hostOf(email, dots) ==
  LET I == {i \in DOMAIN dots : dots[i] # {}}
  IN IF I = {} THEN Undefined
     ELSE SubSeq(email, Min(I) + 1, HostEnd(email, dots[Min(I)]))

\* extractDomain: email.match(/@([\w.-]+\.[a-z]{2,})/i), the group or
\* Undefined (null)
extractDomain(email) ==
  hostOf(email, [i \in 1..Len(email) |-> HostDotsAfterAt(email, i)])

\* .filter(d => d !== null) over one entry
notNull(d) == IF d = Undefined THEN <<>> ELSE <<d>>

\* emails.map(extractDomain).filter(d => d !== null)
RECURSIVE domainsOf(_)
domainsOf(emails) ==
  IF emails = <<>> THEN <<>>
  ELSE notNull(extractDomain(Head(emails))) \o domainsOf(Tail(emails))

\* s.replace(new RegExp(escaped(pat), 'gi'), ' '): every occurrence of the
\* literal pat, compared without case, becomes one space
RECURSIVE replaceAll(_, _)
replaceAll(s, pat) ==
  IF s = <<>> \/ pat = <<>> THEN s
  ELSE IF /\ Len(pat) <= Len(s)
          /\ toLowerCase(SubSeq(s, 1, Len(pat))) = toLowerCase(pat)
       THEN <<" ">> \o replaceAll(SubSeq(s, Len(pat) + 1, Len(s)), pat)
       ELSE <<Head(s)>> \o replaceAll(Tail(s), pat)

\* The text with the tokens left in it
replaceNothing(s, tokens) == s

\* tokens.forEach(t => { s = s.replace(..t.., ' ') })
RECURSIVE replaceEach(_, _)
replaceEach(s, tokens) ==
  IF tokens = <<>> THEN s
  ELSE replaceEach(replaceAll(s, Head(tokens)), Tail(tokens))

\* s.replace(/\s+/g, ' ')
RECURSIVE collapseSpaces(_)
collapseSpaces(s) ==
  IF s = <<>> THEN <<>>
  ELSE IF IsSpace(Head(s))
       THEN <<" ">> \o collapseSpaces(SubSeq(s, RunEnd(s, 1, SpaceChars) + 1, Len(s)))
       ELSE <<Head(s)>> \o collapseSpaces(Tail(s))

(***************************************************************************)
(* The query planner: index.ts lines 186-388                               *)
(***************************************************************************)

\* A string-valued argument in a condition: null, undefined and '' are falsy.
\* (An array, empty or not, is truthy: it is tested with # Undefined.)
Truthy(v) == v # Undefined /\ v # <<>>

\* args.search_term?.toLowerCase() || ''
searchTermOf(arguments) ==
  IF arguments.search_term = Undefined THEN <<>> ELSE toLowerCase(arguments.search_term)

\* isLastRequest: set when requestedLastCount is truthy
isLastRequestOf(requestedLastCount) == requestedLastCount # 0

\* if (!apiParams.calendar_invitees_domains) ... = []; ....push(...more)
pushDomains(domains, more) ==
  IF more = <<>> THEN domains
  ELSE (IF domains = Undefined THEN <<>> ELSE domains) \o more

\* The heuristics take nothing from the search term
noTermPlan(effective) ==
  [emails |-> <<>>, domains |-> Undefined, teams |-> Undefined,
   effective |-> effective]

\* The chain of heuristics over a truthy search_term (lines 241-340), given
\* agentEmail, foundEmails and foundDomains: the e-mails kept for
\* client-side filtering, the domains and teams pushed to the source, and
\* the text left once the identity tokens are replaced.
heuristics(searchTerm, agentEmail, foundEmails, foundDomains) ==
  IF agentEmail # Undefined
  THEN IF includes(agentEmail, <<"@">>)
       THEN [emails    |-> <<agentEmail>>,
             domains   |-> pushDomains(Undefined, domainsOf(<<agentEmail>>)),
             teams     |-> Undefined,
             effective |-> replaceAll(searchTerm, agentEmail)]
       ELSE [emails    |-> <<>>,
             domains   |-> <<agentEmail>>,
             teams     |-> Undefined,
             effective |-> replaceAll(searchTerm, agentEmail)]
  ELSE IF Len(foundEmails) > 0
  THEN [emails    |-> foundEmails,
        domains   |-> pushDomains(Undefined, domainsOf(foundEmails)),
        teams     |-> Undefined,
        effective |-> replaceEach(searchTerm, foundEmails)]
  ELSE IF Len(foundDomains) > 0
  THEN [emails    |-> <<>>,
        domains   |-> foundDomains,
        teams     |-> Undefined,
        effective |-> replaceEach(searchTerm, foundDomains)]
  ELSE IF includes(searchTerm, <<"@">>)
  THEN [emails    |-> <<searchTerm>>,
        domains   |-> pushDomains(Undefined, domainsOf(<<searchTerm>>)),
        teams     |-> Undefined,
        effective |-> replaceAll(searchTerm, searchTerm)]
  ELSE IF includes(searchTerm, <<".">>) /\ ~includes(searchTerm, <<"@">>)
          /\ ~includes(searchTerm, <<" ">>)
  THEN [emails    |-> <<>>,
        domains   |-> <<searchTerm>>,
        teams     |-> Undefined,
        effective |-> replaceAll(searchTerm, searchTerm)]
  ELSE IF \/ includes(searchTerm, <<"t","e","a","m">>)
          \/ includes(searchTerm, <<"d","e","p","a","r","t","m","e","n","t">>)
          \/ includes(searchTerm, <<"g","r","o","u","p">>)
  THEN [emails    |-> <<>>,
        domains   |-> Undefined,
        teams     |-> <<searchTerm>>,
        effective |-> searchTerm]
  ELSE noTermPlan(searchTerm)

\* Lines 241-340 over a truthy search_term
searchTermHeuristics(searchTerm) ==
  heuristics(searchTerm, agentMatch(searchTerm), foundEmailsOf(searchTerm),
             foundDomainsOf(searchTerm))

\* The heuristics of lines 241-340 when search_term is truthy, nothing
\* otherwise
termPlanOf(arguments) ==
  IF Truthy(arguments.search_term)
  THEN searchTermHeuristics(toLowerCase(arguments.search_term))
  ELSE noTermPlan(<<>>)

\* effectiveSearchTerm.length > 0 ? effectiveSearchTerm : undefined
nonEmpty(e) == IF Len(e) > 0 THEN e ELSE Undefined

\* effectiveSearchTermGlobal (lines 240, 338-339): the normalised residual
\* text, Undefined when the search term is falsy or nothing is left of it
effectiveSearchTermGlobalOf(termPlan) ==
  nonEmpty(trim(collapseSpaces(termPlan.effective)))

\* args.calendar_invitees.filter(email => email.includes('@') && email.includes('.'))
validEmailsOf(arguments) ==
  IF arguments.calendar_invitees = Undefined THEN <<>>
  ELSE SelectSeq(arguments.calendar_invitees,
              LAMBDA e : includes(e, <<"@">>) /\ includes(e, <<".">>))

\* emailsToFilter (lines 231-361)
emailsToFilterOf(arguments, termPlan) ==
  IF Len(validEmailsOf(arguments)) > 0
  THEN uniq(termPlan.emails \o validEmailsOf(arguments)) ELSE termPlan.emails

\* [...new Set(list)] when the list is set (lines 376-378)
dedupe(list) == IF list # Undefined THEN uniq(list) ELSE list

\* The explicit calendar_invitees_domains joined to the list (lines 380-384)
withExplicitDomains(domains, explicit) ==
  IF explicit # Undefined
  THEN uniq((IF domains = Undefined THEN <<>> ELSE domains) \o explicit)
  ELSE domains

\* apiParams.calendar_invitees_domains (lines 262-384)
calendarInviteesDomainsOf(arguments, termPlan) ==
  withExplicitDomains(
    dedupe(pushDomains(termPlan.domains, domainsOf(validEmailsOf(arguments)))),
    arguments.calendar_invitees_domains)

\* Date.now(): the clock of the run.  Instants are counted in days, the
\* 24 * 60 * 60 * 1000 ms that line 219 multiplies daysBack by.
Now == 1000

\* Date.prototype.toISOString: an instant is written with its decimal digits
RECURSIVE toISOString(_)
toISOString(t) ==
  IF t < 10 THEN <<DigitChars[t + 1]>>
  ELSE toISOString(t \div 10) \o <<DigitChars[(t % 10) + 1]>>

\* days_back taken as it is given
daysBackUncapped(days_back) == days_back

\* Math.min(args.days_back, 365)
daysBackOf(days_back) == IF days_back < 365 THEN days_back ELSE 365

\* apiParams.created_after (lines 214-224).  An absent days_back is the
\* number 0 here: the code only reads args.days_back for truthiness, which 0
\* and undefined share.
createdAfterOf(arguments) ==
  IF Truthy(arguments.created_after) THEN arguments.created_after
  ELSE IF arguments.days_back # 0
       THEN toISOString(Now - daysBackOf(arguments.days_back))
       ELSE toISOString(Now - 180)

\* apiParams.created_before (lines 226-228)
createdBeforeOf(arguments) ==
  IF Truthy(arguments.created_before) THEN arguments.created_before ELSE Undefined

\* apiParams (lines 205-385): the parameters sent with every fetch.  The
\* toggles are booleans, an absent one being its default: include_summary and
\* include_action_items are read with !== false, include_transcript with
\* || false.
apiParamsOf(arguments, termPlan) ==
  [include_summary      |-> arguments.include_summary # FALSE,
   include_action_items |-> arguments.include_action_items # FALSE,
   include_transcript   |-> arguments.include_transcript,
   created_after  |-> createdAfterOf(arguments),
   created_before |-> createdBeforeOf(arguments),
   calendar_invitees_domains |-> calendarInviteesDomainsOf(arguments, termPlan),
   recorded_by |-> arguments.recorded_by,
   teams       |-> termPlan.teams]

\* hasSpecificFilters (line 388): an array, even an empty one, is truthy
hasSpecificFiltersOf(apiParams) ==
  \/ apiParams.calendar_invitees_domains # Undefined
  \/ apiParams.recorded_by # Undefined

\* freeText (line 482): effectiveSearchTermGlobal || searchLower
freeTextOf(effectiveSearchTermGlobal, searchLower) ==
  IF effectiveSearchTermGlobal # Undefined
  THEN effectiveSearchTermGlobal ELSE searchLower

\* The locals handleMCPRequest has set when it issues the first fetch
\* (lines 186-388); freeText is computed from them at line 482
locals(requestedLastCount, emailsToFilter, apiParams, effective, searchLower) ==
  [requestedLastCount |-> requestedLastCount,
   isLastRequest      |-> isLastRequestOf(requestedLastCount),
   emailsToFilter     |-> emailsToFilter,
   apiParams          |-> apiParams,
   effectiveSearchTermGlobal |-> effective,
   hasSpecificFilters |-> hasSpecificFiltersOf(apiParams),
   freeText           |-> freeTextOf(effective, searchLower)]

\* The locals, given what the heuristics took from the search term
localsOf(arguments, termPlan) ==
  locals(requestedLastCountOf(searchTermOf(arguments)),
         emailsToFilterOf(arguments, termPlan),
         apiParamsOf(arguments, termPlan),
         effectiveSearchTermGlobalOf(termPlan),
         searchTermOf(arguments))

planOf(arguments) == localsOf(arguments, termPlanOf(arguments))

(***************************************************************************)
(* Records of the source (types.ts, FathomMeeting).  team is                *)
(* recorded_by?.team; summary is default_summary?.markdown_formatted;      *)
(* action_items and transcript hold the description and text of each entry. *)
(***************************************************************************)

Meeting(id, title, team, invitees, summary) ==
  [recording_id |-> id, title |-> title, meeting_title |-> title,
   team |-> team, calendar_invitees |-> invitees, summary |-> summary,
   action_items |-> Undefined, transcript |-> Undefined]

Bob == [name |-> <<"B","o","b">>, email |-> <<"B","o","b","@","A","c","m","e",".","f","r">>]

\* an attendee the source matched by domain and delivers without an e-mail
Ann == [name |-> <<"A","n","n">>, email |-> Undefined]

Budget == <<"B","u","d","g","e","t">>

\* The records the source can deliver.  Three belong to teams a caller may
\* see; the other five are what the hardcoded exclusions are about: team
\* named Executive, Personal or No Team in some case, empty, or absent.
M1 == Meeting(1, Budget, <<"S","a","l","e","s">>, <<Bob>>, <<"l","a","s","t"," ","0"," ","l","a","s","t"," ","2"," ","l","a","s","t"," ","4">>)
M2 == Meeting(2, <<"L","a","s","t"," ","4"," ","l","a","s","t"," ","2">>, <<"O","p","s">>, <<Ann>>, Undefined)
M3 == Meeting(3, Budget, <<"E","X","E","C","U","T","I","V","E">>, <<Bob>>, Undefined)
M4 == Meeting(4, Budget, Undefined, <<Bob>>, Undefined)
M5 == Meeting(5, Budget, <<>>, <<Bob>>, Undefined)
M6 == Meeting(6, Budget, <<"M","y"," ","P","e","r","s","o","n","a","l">>, <<Bob>>, Undefined)
M7 == Meeting(7, Budget, <<"N","o"," ","T","e","a","m">>, <<Bob>>, Undefined)
M8 == Meeting(8, <<"S","y","n","c">>, <<"O","p","s">>, <<Bob>>, <<"l","a","s","t"," ","2">>)

\* the records no hardcoded exclusion removes
Visible == {M1, M2, M8}

Pool == {M1, M2, M3, M4, M5, M6, M7, M8}

\* an attendee of the same domain as Bob, with another address
Eve == [name |-> <<"E","v","e">>, email |-> <<"e","v","e","@","a","c","m","e",".","f","r">>]

\* Records that carry the word budget in one field each: the title (with
\* an attendee of the domain of Bob), the alternate title, the summary, an
\* action item, an attendee's name, an attendee's address, and a transcript
\* entry.  M16 carries it in none, and is attended by Bob.
M9 == Meeting(9, Budget, <<"O","p","s">>, <<Eve>>, Undefined)
M10 == [Meeting(10, Undefined, <<"O","p","s">>, <<Bob>>, Undefined) EXCEPT !.meeting_title = <<"T","h","e"," ","B","U","D","G","E","T">>]
M11 == Meeting(11, <<"S","y","n","c">>, <<"O","p","s">>, <<Bob>>, <<"b","u","d","g","e","t","s">>)
M12 == [Meeting(12, <<"S","y","n","c">>, <<"O","p","s">>, <<Bob>>, Undefined) EXCEPT !.action_items = <<<<"S","e","n","d">>, <<"F","i","x"," ","B","u","d","g","e","t">>>>]
M13 == Meeting(13, <<"S","y","n","c">>, <<"O","p","s">>, <<Bob, [name |-> <<"B","u","d","g","e","t"," ","B","o","t">>, email |-> Undefined]>>, Undefined)
M14 == Meeting(14, <<"S","y","n","c">>, <<"O","p","s">>, <<[name |-> <<"K","i","m">>, email |-> <<"b","u","d","g","e","t","@","a","c","m","e",".","f","r">>], Bob>>, Undefined)
M15 == [Meeting(15, <<"S","y","n","c">>, <<"O","p","s">>, <<Bob>>, Undefined) EXCEPT !.transcript = <<<<"H","i">>, <<"o","u","r"," ","b","u","d","g","e","t">>>>]
M16 == [Meeting(16, <<"S","y","n","c">>, <<"O","p","s">>, <<Bob>>, <<"n","o","t","e","s">>) EXCEPT !.action_items = <<<<"S","e","n","d">>>>, !.transcript = <<<<"H","i">>>>]

MatchPool == {M9, M10, M11, M12, M13, M14, M15, M16}

\* every record of the model
Records == Pool \cup MatchPool

(***************************************************************************)
(* Bounds and inputs                                                       *)
(***************************************************************************)

\* the longest page the source returns
MaxPageLen == 2

\* fetches counts the fetches of a request up to this number and stays there
MaxFetches == 3

\* every page the source can return: up to MaxPageLen records, the pages of
\* more than one record made of different visible records
Pages ==
  {p \in UNION {[1..n -> Pool] : n \in 0..MaxPageLen} :
     Len(p) > 1 => \A i, j \in 1..Len(p) :
                     p[i] \in Visible /\ (i # j => p[i] # p[j])}

\* the continuation tokens of the source; Undefined is the last page
Cursors == {<<"c","1">>, <<"c","2">>}

\* HTTP statuses of a failed fetch: rate limited, unauthorised, unavailable
FailureStatuses == {429, 401, 503}

SearchTerms ==
  {Undefined,
   <<>>,
   <<"a","c","m","e",".","f","r">>,
   <<"l","a","s","t"," ","2"," ","a","c","m","e",".","f","r">>,
   <<"L","a","s","t"," ","4"," ","a","c","m","e",".","f","r">>,
   <<"l","a","s","t"," ","2">>,
   <<"l","a","s","t"," ","0">>,
   <<"b","u","d","g","e","t">>}

\* search_meetings arguments.  limit 0 stands for a call without limit, and
\* days_back 0 for a call without days_back; an absent toggle is its default.
ArgsSet ==
  [search_term   : SearchTerms,
   limit         : {0, 1, 5, -1},
   exclude_teams : {Undefined, <<<<"s","a","l","e","s">>>>},
   calendar_invitees         : {Undefined},
   calendar_invitees_domains : {Undefined},
   recorded_by               : {Undefined},
   days_back      : {0},
   created_after  : {Undefined},
   created_before : {Undefined},
   include_summary      : {TRUE},
   include_action_items : {TRUE},
   include_transcript   : {FALSE}]

NoArgs ==
  [search_term |-> Undefined, limit |-> 0, exclude_teams |-> Undefined,
   calendar_invitees |-> Undefined, calendar_invitees_domains |-> Undefined,
   recorded_by |-> Undefined, days_back |-> 0, created_after |-> Undefined,
   created_before |-> Undefined, include_summary |-> TRUE,
   include_action_items |-> TRUE, include_transcript |-> FALSE]

\* Search terms that name attendees or a team: an e-mail address among
\* other words, two e-mail addresses, a team, and plain text
FilterTerms ==
  {<<"B","u","d","g","e","t"," "," ","B","o","b","@","A","c","m","e",".","f","r">>,
   <<"b","o","b","@","a","c","m","e",".","f","r"," ","e","v","e","@","a","c","m","e",".","f","r">>,
   <<"o","p","s"," ","t","e","a","m">>,
   <<"b","u","d","g","e","t">>}

\* search_meetings arguments that vary the date window, the toggles and the
\* attendees
FilterArgsSet ==
  [search_term   : FilterTerms,
   limit         : {0},
   exclude_teams : {Undefined},
   calendar_invitees         : {Undefined,
                                <<<<"B","o","b","@","A","c","m","e",".","f","r">>,
                                  <<"e","v","e","@","a","c","m","e",".","f","r">>>>},
   calendar_invitees_domains : {Undefined},
   recorded_by               : {Undefined},
   days_back      : {0, 30, 400},
   created_after  : {Undefined, <<"9","0","0">>},
   created_before : {Undefined, <<"9","5","0">>},
   include_summary      : BOOLEAN,
   include_action_items : BOOLEAN,
   include_transcript   : BOOLEAN]

\* the pages the source returns to these calls
FilterPages == {<<>>, <<M1>>, <<M8, M2>>}

\* Calls that look for a word, alone or next to an attendee's address, with
\* and without a list of attendees of which one entry is not an address
MatchArgsSet ==
  [search_term   : {<<"b","u","d","g","e","t">>, <<"B","u","d","g","e","t"," "," ","B","o","b","@","A","c","m","e",".","f","r">>},
   limit         : {0},
   exclude_teams : {Undefined},
   calendar_invitees         : {Undefined, <<<<"E","v","e">>, <<"E","v","e","@","a","c","m","e",".","f","r">>>>},
   calendar_invitees_domains : {Undefined},
   recorded_by               : {Undefined},
   days_back      : {0},
   created_after  : {Undefined},
   created_before : {Undefined},
   include_summary      : {TRUE},
   include_action_items : {TRUE},
   include_transcript   : BOOLEAN]

\* the pages the source returns to these calls: one record, or two with
\* the one that matches in no field
MatchPages ==
  {<<m>> : m \in MatchPool} \cup {<<M16, m>> : m \in {M9, M12}} \cup {<<M1, M9>>}

\* every argument record of the model
AllArgs == ArgsSet \cup FilterArgsSet \cup MatchArgsSet

\* planOf, tabulated over the arguments of the model
planTable == [a \in AllArgs |-> planOf(a)]

\* the locals of a handler that is not running
NoPlan ==
  [requestedLastCount |-> 0, isLastRequest |-> FALSE, emailsToFilter |-> <<>>,
   apiParams |-> [include_summary |-> TRUE, include_action_items |-> TRUE,
                  include_transcript |-> FALSE, created_after |-> Undefined,
                  created_before |-> Undefined,
                  calendar_invitees_domains |-> Undefined,
                  recorded_by |-> Undefined, teams |-> Undefined],
   effectiveSearchTermGlobal |-> Undefined, hasSpecificFilters |-> FALSE,
   freeText |-> <<>>]

(***************************************************************************)
(* The stages after the fetch: index.ts lines 431-568                      *)
(***************************************************************************)

\* maxFetchLimit of the pagination loop (1000 in the code)
maxFetchLimit == 3

\* the cap of args.limit (100 in the code)
MaxLimit == 3

\* the limit used when args.limit is falsy (50 in the code)
DefaultLimit == 2

\* emailsToFilter.map(e => e.toLowerCase())
RECURSIVE mapToLowerCase(_)
mapToLowerCase(strs) ==
  IF strs = <<>> THEN <<>>
  ELSE <<toLowerCase(Head(strs))>> \o mapToLowerCase(Tail(strs))

\* An attendee whose address is of the domain of one of the e-mails
attendeeSharesDomain(attendee, emailsLower) ==
  /\ Truthy(attendee.email)
  /\ \E i \in 1..Len(emailsLower) :
       extractDomain(emailsLower[i]) = extractDomain(toLowerCase(attendee.email))

\* attendeeEmail && emailsToFilterLower.includes(attendeeEmail)
attendeeIsOneOf(attendee, emailsLower) ==
  /\ Truthy(attendee.email)
  /\ \E i \in 1..Len(emailsLower) : emailsLower[i] = toLowerCase(attendee.email)

\* The predicate of the e-mail filter (lines 435-441)
someAttendeeIsOneOf(meeting, emailsToFilter) ==
  \E i \in 1..Len(meeting.calendar_invitees) :
    attendeeIsOneOf(meeting.calendar_invitees[i], mapToLowerCase(emailsToFilter))

\* someAttendeeIsOneOf, tabulated over the e-mail lists and the records of
\* the model
someAttendeeIsOneOfTable ==
  [emails \in {planTable[a].emailsToFilter : a \in AllArgs} |->
     [m \in Records |-> someAttendeeIsOneOf(m, emails)]]

\* Client-side filtering by e-mail address (lines 432-443)
emailFilter(meetings, emailsToFilter) ==
  IF Len(emailsToFilter) > 0
  THEN SelectSeq(meetings, LAMBDA m : someAttendeeIsOneOfTable[emailsToFilter][m])
  ELSE meetings

hardcodedExcludeTeams ==
  <<<<"E","x","e","c","u","t","i","v","e">>,
    <<"P","e","r","s","o","n","a","l">>,
    <<"N","o"," ","T","e","a","m">>,
    Undefined, Undefined>>

\* args.exclude_teams || []
userExcludeTeamsOf(exclude_teams) ==
  IF exclude_teams = Undefined THEN <<>> ELSE exclude_teams

\* A list in which the teams of the caller take the place of the hardcoded
\* ones
userTeamsInsteadOfHardcoded(exclude_teams) ==
  IF exclude_teams = Undefined THEN uniq(hardcodedExcludeTeams)
  ELSE exclude_teams

\* [...new Set([...hardcodedExcludeTeams, ...userExcludeTeams])]
allExcludeTeamsOf(exclude_teams) ==
  uniq(hardcodedExcludeTeams \o userExcludeTeamsOf(exclude_teams))

\* allExcludeTeamsOf, tabulated over the exclude_teams of the model
allExcludeTeamsTable ==
  [ex \in {a.exclude_teams : a \in AllArgs} |-> allExcludeTeamsOf(ex)]

\* isExcluded comparing the team names as they are written
isExcludedCaseSensitive(recordedByTeam, allExcludeTeams) ==
  \E i \in 1..Len(allExcludeTeams) :
    IF allExcludeTeams[i] = Undefined
    THEN recordedByTeam = Undefined \/ recordedByTeam = <<>>
    ELSE /\ recordedByTeam # Undefined
         /\ includes(recordedByTeam, allExcludeTeams[i])

\* isExcluded (lines 458-464)
isExcluded(recordedByTeam, allExcludeTeams) ==
  \E i \in 1..Len(allExcludeTeams) :
    IF allExcludeTeams[i] = Undefined
    THEN recordedByTeam = Undefined \/ recordedByTeam = <<>>
    ELSE /\ recordedByTeam # Undefined
         /\ includes(toLowerCase(recordedByTeam), toLowerCase(allExcludeTeams[i]))

\* isExcluded, tabulated over the exclude_teams and the records of the model
isExcludedTable ==
  [ex \in {a.exclude_teams : a \in AllArgs} |->
     [m \in Records |-> isExcluded(m.team, allExcludeTeamsTable[ex])]]

\* filteredMeetings (lines 454-472)
securityFilter(meetings, arguments) ==
  SelectSeq(meetings, LAMBDA m : ~isExcludedTable[arguments.exclude_teams][m])

\* x?.toLowerCase().includes(freeText)
fieldMatch(x, freeText) == x # Undefined /\ includes(toLowerCase(x), freeText)

\* list?.some(entry => entry?.toLowerCase().includes(freeText))
someFieldMatch(list, freeText) ==
  list # Undefined /\ \E i \in 1..Len(list) : fieldMatch(list[i], freeText)

\* A match that reads the titles, the summary and the attendees only
isMatchWithoutEntries(meeting, freeText) ==
  \/ fieldMatch(meeting.title, freeText)
  \/ fieldMatch(meeting.meeting_title, freeText)
  \/ fieldMatch(meeting.summary, freeText)
  \/ \E i \in 1..Len(meeting.calendar_invitees) :
        \/ fieldMatch(meeting.calendar_invitees[i].name, freeText)
        \/ fieldMatch(meeting.calendar_invitees[i].email, freeText)

\* isMatch (lines 487-503)
isMatch(meeting, freeText) ==
  LET titleMatch       == \/ fieldMatch(meeting.title, freeText)
                          \/ fieldMatch(meeting.meeting_title, freeText)
      summaryMatch     == fieldMatch(meeting.summary, freeText)
      actionItemsMatch == someFieldMatch(meeting.action_items, freeText)
      attendeeMatch    == \E i \in 1..Len(meeting.calendar_invitees) :
                            \/ fieldMatch(meeting.calendar_invitees[i].name, freeText)
                            \/ fieldMatch(meeting.calendar_invitees[i].email, freeText)
      transcriptMatch  == someFieldMatch(meeting.transcript, freeText)
  IN titleMatch \/ summaryMatch \/ actionItemsMatch \/ attendeeMatch \/ transcriptMatch

\* isMatch, tabulated over the free texts and the records of the model
isMatchTable ==
  [freeText \in {planTable[a].freeText : a \in AllArgs} |->
     [m \in Records |-> isMatch(m, freeText)]]

\* matchingMeetings (lines 479-514)
matchEngine(filtered, freeText) ==
  IF freeText # <<>>
  THEN SelectSeq(filtered, LAMBDA m : isMatchTable[freeText][m])
  ELSE filtered

\* Math.min(args.limit || 50, 100).  An absent limit is the number 0 here:
\* the code only reads args.limit through ||, which treats 0 and undefined
\* alike.
limitOf(arguments) ==
  LET given == IF arguments.limit # 0 THEN arguments.limit ELSE DefaultLimit
  IN IF given < MaxLimit THEN given ELSE MaxLimit

\* actualLimit (lines 522-532)
actualLimitOf(arguments, planned) ==
  IF planned.isLastRequest /\ planned.requestedLastCount # 0
  THEN planned.requestedLastCount ELSE limitOf(arguments)

\* finalMeetings taken from the front whatever the request
resultShaperFromFront(matching, arguments, planned) ==
  slice(matching, 0, actualLimitOf(arguments, planned))

\* finalMeetings with the count of a "last N" request held to the cap of
\* the limit
resultShaperCapped(matching, arguments, planned) ==
  IF planned.isLastRequest /\ planned.requestedLastCount # 0
  THEN sliceFrom(matching, 0 - (IF planned.requestedLastCount < MaxLimit THEN planned.requestedLastCount ELSE MaxLimit))
  ELSE slice(matching, 0, limitOf(arguments))

\* finalMeetings (lines 522-532)
resultShaper(matching, arguments, planned) ==
  IF planned.isLastRequest /\ planned.requestedLastCount # 0
  THEN sliceFrom(matching, 0 - planned.requestedLastCount)
  ELSE slice(matching, 0, limitOf(arguments))

\* One entry of formattedMeetings (lines 534-543); the date and url of a
\* record are not modelled
formatMeeting(meeting, arguments) ==
  [title       |-> IF Truthy(meeting.title) THEN meeting.title ELSE meeting.meeting_title,
   attendees   |-> meeting.calendar_invitees,
   recorded_by |-> [team |-> meeting.team],
   summary     |-> IF arguments.include_summary # FALSE
                   THEN meeting.summary ELSE Undefined,
   action_items |-> IF arguments.include_action_items # FALSE
                    THEN meeting.action_items ELSE Undefined,
   transcript  |-> IF arguments.include_transcript
                   THEN meeting.transcript ELSE Undefined]

RECURSIVE formatMeetings(_, _)
formatMeetings(meetings, arguments) ==
  IF meetings = <<>> THEN <<>>
  ELSE <<formatMeeting(Head(meetings), arguments)>> \o formatMeetings(Tail(meetings), arguments)

\* filters_applied (lines 556-562); args.days_back || 180
filtersApplied(arguments) ==
  [exclude_teams |-> SelectSeq(allExcludeTeamsTable[arguments.exclude_teams], Truthy),
   days_back     |-> IF arguments.days_back # 0 THEN arguments.days_back ELSE 180,
   include_summary      |-> arguments.include_summary # FALSE,
   include_action_items |-> arguments.include_action_items # FALSE,
   include_transcript   |-> arguments.include_transcript]

\* The JSON-RPC result of a search (lines 545-567)
searchResult(matching, final, arguments, planned) ==
  [kind        |-> "result",
   total_found |-> Len(matching),
   showing     |-> Len(final),
   has_more    |-> Len(matching) > actualLimitOf(arguments, planned),
   search_term |-> arguments.search_term,
   filters_applied |-> filtersApplied(arguments),
   meetings    |-> formatMeetings(final, arguments)]

\* FathomClient.handleError: the message of the error a failed fetch throws
handleError(status) ==
  IF status = 429 THEN "Rate limit exceeded. Please try again later."
  ELSE IF status = 401 THEN "Invalid API key. Please check your Fathom API key."
  ELSE "Fathom API error"

\* The JSON-RPC error of the catch block (lines 572-585)
errorResult(errorMessage) ==
  [kind |-> "error", code |-> -32603, message |-> errorMessage]

NoResponse == [kind |-> "none"]

(***************************************************************************)
(* The endpoint: authenticateSSE and the dispatch of handleMCPRequest,     *)
(* index.ts lines 30-100 and 569-596                                       *)
(***************************************************************************)

\* process.env.MCP_BEARER_TOKEN
bearerToken == <<"g","o","o","d">>

\* String.prototype.split(sep) for a separator of one character
RECURSIVE split(_, _)
split(s, sep) ==
  IF \E i \in 1..Len(s) : s[i] = sep
  THEN <<SubSeq(s, 1, Min({i \in 1..Len(s) : s[i] = sep}) - 1)>>
         \o split(SubSeq(s, Min({i \in 1..Len(s) : s[i] = sep}) + 1, Len(s)), sep)
  ELSE <<s>>

\* const token = authHeader && authHeader.split(' ')[1] (line 37): the
\* second part, undefined when there is none
tokenOf(authHeader) ==
  IF Truthy(authHeader) /\ Len(split(authHeader, " ")) >= 2
  THEN split(authHeader, " ")[2] ELSE Undefined

\* The status authenticateSSE rejects the request with (lines 39-49), 0 when
\* it hands the request to handleMCPRequest
rejectionOf(token) ==
  IF ~Truthy(token) THEN 401
  ELSE IF token # bearerToken THEN 403
  ELSE 0

\* Authorization headers: none, a scheme alone, the token, another token,
\* the token under another scheme, the token followed by another word
AuthHeaders ==
  {Undefined,
   <<"B","e","a","r","e","r">>,
   <<"B","e","a","r","e","r"," ","g","o","o","d">>,
   <<"B","e","a","r","e","r"," ","b","a","d">>,
   <<"B","a","s","i","c"," ","g","o","o","d">>,
   <<"B","e","a","r","e","r"," ","g","o","o","d"," ","x">>}

\* The requests POSTed to /sse: the Authorization header and the body.
\* "ping" is a method the handler does not know and "other_tool" a tool
\* it does not have; hasParams and hasArguments tell whether params and
\* params.arguments are there; the arguments are those of a search for a
\* domain and of a search for a word.
HttpRequests ==
  [authorization : AuthHeaders,
   method : {"initialize", "notifications/initialized", "tools/list", "tools/call", "ping"},
   id : {1, 2},
   hasParams : BOOLEAN,
   name : {"search_meetings", "other_tool"},
   hasArguments : BOOLEAN,
   arguments : {a \in ArgsSet : a.search_term \in {<<"a","c","m","e",".","f","r">>, <<"b","u","d","g","e","t">>} /\ a.limit = 0 /\ a.exclude_teams = Undefined}]

\* no request
NoReq ==
  [authorization |-> Undefined, method |-> "none", id |-> 0, hasParams |-> FALSE,
   name |-> "none", hasArguments |-> FALSE, arguments |-> NoArgs]

\* an authenticated tools/call of search_meetings
searchRequest(a) ==
  [authorization |-> <<"B","e","a","r","e","r"," ","g","o","o","d">>,
   method |-> "tools/call", id |-> 1, hasParams |-> TRUE,
   name |-> "search_meetings", hasArguments |-> TRUE, arguments |-> a]

\* res.status(status).json({ ... }): a body that is no JSON-RPC envelope
plain(status) == [status |-> status, kind |-> "plain", id |-> 0, code |-> 0]

\* An envelope with the id of no request
rpcResultWithoutId(id) == [status |-> 200, kind |-> "result", id |-> 0, code |-> 0]

\* res.json({ jsonrpc: '2.0', id, result }) (lines 68-84, 91-173, 545-567)
rpcResult(id) == [status |-> 200, kind |-> "result", id |-> id, code |-> 0]

\* res.json({ jsonrpc: '2.0', id, error: { code: -32603, message } })
\* (lines 576-584)
rpcError(id) == [status |-> 200, kind |-> "error", id |-> id, code |-> -32603]

(***************************************************************************)
(* State: the locals of each running handleMCPRequest                      *)
(***************************************************************************)

\* Two requests can be in flight at once; Spec runs the first one.
Handlers == {1, 2}

VARIABLES
  pc,               \* "idle", "fetching" (awaiting listMeetings), "responded"
  args,             \* params.arguments of the tools/call request
  plan,             \* the locals set by the planning of lines 186-388
  cursor,           \* cursor of the pagination loop
  next_cursor,      \* response.next_cursor of the last page received
  totalFetched,     \* totalFetched of the pagination loop
  allMeetings,      \* allMeetings as aggregated from the source
  filteredMeetings, \* filteredMeetings, after the security filter
  matchingMeetings, \* matchingMeetings, after the text matching
  finalMeetings,    \* finalMeetings, after the limit
  response,         \* what res.json was called with
  fetches,          \* history: listMeetings calls issued for the request
  source,           \* the source's reply to listMeetings, by cursor
  req,              \* the request being served: Authorization header and body
  res               \* the HTTP responses sent for it, in order

vars == <<pc, args, plan, cursor, next_cursor, totalFetched, allMeetings, filteredMeetings,
          matchingMeetings, finalMeetings, response, fetches, source, req, res>>

\* No request is running: handleMCPRequest keeps nothing between calls
NoRequest ==
  /\ pc = [r \in Handlers |-> "idle"]
  /\ args = [r \in Handlers |-> NoArgs]
  /\ plan = [r \in Handlers |-> NoPlan]
  /\ cursor = [r \in Handlers |-> Undefined]
  /\ next_cursor = [r \in Handlers |-> Undefined]
  /\ totalFetched = [r \in Handlers |-> 0]
  /\ allMeetings = [r \in Handlers |-> <<>>]
  /\ filteredMeetings = [r \in Handlers |-> <<>>]
  /\ matchingMeetings = [r \in Handlers |-> <<>>]
  /\ finalMeetings = [r \in Handlers |-> <<>>]
  /\ response = [r \in Handlers |-> NoResponse]
  /\ fetches = [r \in Handlers |-> 0]
  /\ req = [r \in Handlers |-> NoReq]
  /\ res = [r \in Handlers |-> <<>>]

\* A source whose contents change between calls answers each fetch with any
\* page; its replies are then drawn by the fetch, and this table is empty
AnySource == [c \in Cursors \cup {Undefined} |-> [items |-> <<>>, next_cursor |-> Undefined]]

Init ==
  /\ NoRequest
  /\ source = AnySource

\* A response sent before any await: the handler is over
Answer(r, q, reply, payload) ==
  /\ pc' = [pc EXCEPT ![r] = "responded"]
  /\ req' = [req EXCEPT ![r] = q]
  /\ res' = [res EXCEPT ![r] = Append(@, reply)]
  /\ response' = [response EXCEPT ![r] = payload]
  /\ UNCHANGED <<args, plan, cursor, next_cursor, totalFetched, allMeetings,
                 filteredMeetings, matchingMeetings, finalMeetings, fetches,
                 source>>

\* search_meetings: lines 175-409 (or 426), up to the first await
startSearch(r, a) ==
  /\ pc[r] = "idle"
  /\ pc' = [pc EXCEPT ![r] = "fetching"]
  /\ args' = [args EXCEPT ![r] = a]
  /\ plan' = [plan EXCEPT ![r] = planTable[a]]
  /\ cursor' = [cursor EXCEPT ![r] = Undefined]
  /\ next_cursor' = [next_cursor EXCEPT ![r] = Undefined]
  /\ totalFetched' = [totalFetched EXCEPT ![r] = 0]
  /\ allMeetings' = [allMeetings EXCEPT ![r] = <<>>]
  /\ filteredMeetings' = [filteredMeetings EXCEPT ![r] = <<>>]
  /\ matchingMeetings' = [matchingMeetings EXCEPT ![r] = <<>>]
  /\ finalMeetings' = [finalMeetings EXCEPT ![r] = <<>>]
  /\ response' = [response EXCEPT ![r] = NoResponse]
  /\ fetches' = [fetches EXCEPT ![r] = 1]
  /\ source' = source

\* tools/call search_meetings from an authenticated request
ToolsCall(r, a) ==
  /\ startSearch(r, a)
  /\ req' = [req EXCEPT ![r] = searchRequest(a)]
  /\ res' = [res EXCEPT ![r] = <<>>]

\* handleMCPRequest up to its first await or its response (lines 58-596):
\* the dispatch on the method, the destructuring of params (a TypeError
\* without params, caught at line 592) and the tool called (a TypeError on
\* args.search_term without arguments and the unknown tool, both caught at
\* line 572)
handleMCPRequest(r, q) ==
  /\ pc[r] = "idle"
  /\ IF q.method \in {"initialize", "tools/list"}
     THEN Answer(r, q, rpcResult(q.id), NoResponse)
     ELSE IF q.method = "notifications/initialized"
     THEN Answer(r, q, plain(200), NoResponse)
     ELSE IF q.method # "tools/call"
     THEN Answer(r, q, plain(400), NoResponse)
     ELSE IF ~q.hasParams
     THEN Answer(r, q, plain(500), NoResponse)
     ELSE IF q.name = "search_meetings" /\ q.hasArguments
     THEN /\ startSearch(r, q.arguments)
          /\ req' = [req EXCEPT ![r] = q]
          /\ res' = [res EXCEPT ![r] = <<>>]
     ELSE Answer(r, q, rpcError(q.id), errorResult("Unknown tool or arguments"))

\* POST /sse (line 630): authenticateSSE, lines 30-55
authenticateSSE(r, q) ==
  /\ pc[r] = "idle"
  /\ IF rejectionOf(tokenOf(q.authorization)) # 0
     THEN Answer(r, q, plain(rejectionOf(tokenOf(q.authorization))), NoResponse)
     ELSE handleMCPRequest(r, q)

\* A loop that goes on until the cap whatever the source returns
loopContinuesWithoutToken(total, token) == total < maxFetchLimit

\* A loop that goes on as long as the source returns a token
loopContinuesUncapped(total, token) == Truthy(token)

\* do { ... } while (cursor && totalFetched < maxFetchLimit), with the break
\* of lines 417-420: whether the loop issues another fetch after a page
loopContinues(total, token) ==
  /\ total < maxFetchLimit
  /\ Truthy(token)

\* allMeetings with each page put in front of the pages before it
aggregatePrepending(hasSpecificFilters, collected, items) ==
  IF hasSpecificFilters THEN items \o collected ELSE items

\* allMeetings after a page (line 410, or line 427 without specific filters)
aggregate(hasSpecificFilters, collected, items) ==
  IF hasSpecificFilters THEN collected \o items ELSE items

\* The stages run on locals kept in one place for all the requests: the
\* first handler's
RespondSharedLocals(r, collected) ==
  \E byEmail \in {emailFilter(collected, plan[1].emailsToFilter)} :
  \E filtered \in {securityFilter(byEmail, args[1])} :
  \E matching \in {matchEngine(filtered, plan[1].freeText)} :
  \E final \in {resultShaper(matching, args[1], plan[1])} :
    /\ pc' = [pc EXCEPT ![r] = "responded"]
    /\ allMeetings' = [allMeetings EXCEPT ![r] = byEmail]
    /\ filteredMeetings' = [filteredMeetings EXCEPT ![r] = filtered]
    /\ matchingMeetings' = [matchingMeetings EXCEPT ![r] = matching]
    /\ finalMeetings' = [finalMeetings EXCEPT ![r] = final]
    /\ response' = [response EXCEPT ![r] = searchResult(matching, final, args[1], plan[1])]
    /\ fetches' = fetches
    /\ res' = [res EXCEPT ![r] = Append(@, rpcResult(req[r].id))]

\* Lines 431-568: the stages run, without another await, once the fetching
\* is over, up to res.json(result).  The e-mail filter writes its result
\* back to allMeetings (line 435).
Respond(r, collected) ==
  \E byEmail \in {emailFilter(collected, plan[r].emailsToFilter)} :
  \E filtered \in {securityFilter(byEmail, args[r])} :
  \E matching \in {matchEngine(filtered, plan[r].freeText)} :
  \E final \in {resultShaper(matching, args[r], plan[r])} :
    /\ pc' = [pc EXCEPT ![r] = "responded"]
    /\ allMeetings' = [allMeetings EXCEPT ![r] = byEmail]
    /\ filteredMeetings' = [filteredMeetings EXCEPT ![r] = filtered]
    /\ matchingMeetings' = [matchingMeetings EXCEPT ![r] = matching]
    /\ finalMeetings' = [finalMeetings EXCEPT ![r] = final]
    /\ response' = [response EXCEPT ![r] = searchResult(matching, final, args[r], plan[r])]
    /\ fetches' = fetches
    /\ res' = [res EXCEPT ![r] = Append(@, rpcResult(req[r].id))]

\* A listMeetings call resolves with a page (lines 409-429 and on): with
\* specific filters the loop counts the page and either fetches the next one
\* or is over; without them the single fetch of line 426 is over
FetchOk(r, items, token) ==
  /\ pc[r] = "fetching"
  /\ next_cursor' = [next_cursor EXCEPT ![r] = token]
  /\ UNCHANGED <<args, plan, source, req>>
  /\ IF plan[r].hasSpecificFilters
     THEN /\ totalFetched' = [totalFetched EXCEPT ![r] = @ + Len(items)]
          /\ cursor' = [cursor EXCEPT ![r] = token]
     ELSE UNCHANGED <<totalFetched, cursor>>
  /\ IF /\ plan[r].hasSpecificFilters
        /\ loopContinues(totalFetched[r] + Len(items), token)
     THEN /\ allMeetings' = [allMeetings EXCEPT ![r] = aggregate(TRUE, @, items)]
          /\ fetches' = [fetches EXCEPT
                           ![r] = IF @ < MaxFetches THEN @ + 1 ELSE @]
          /\ UNCHANGED <<pc, filteredMeetings, matchingMeetings,
                         finalMeetings, response, res>>
     ELSE Respond(r, aggregate(plan[r].hasSpecificFilters, allMeetings[r], items))

\* A failed fetch answered with what the earlier pages delivered
FetchFailPartial(r, status) ==
  /\ pc[r] = "fetching"
  /\ Respond(r, allMeetings[r])
  /\ UNCHANGED <<args, plan, cursor, next_cursor, totalFetched, source, req>>

\* A listMeetings call rejects: the error reaches the catch of lines 572-585
FetchFail(r, status) ==
  /\ pc[r] = "fetching"
  /\ pc' = [pc EXCEPT ![r] = "responded"]
  /\ response' = [response EXCEPT ![r] = errorResult(handleError(status))]
  /\ res' = [res EXCEPT ![r] = Append(@, rpcError(req[r].id))]
  /\ UNCHANGED <<args, plan, cursor, next_cursor, totalFetched, allMeetings,
                 filteredMeetings, matchingMeetings, finalMeetings, fetches,
                 source, req>>

\* handleMCPRequest returns; its locals are gone
Return(r) ==
  /\ pc[r] = "responded"
  /\ pc' = [pc EXCEPT ![r] = "idle"]
  /\ args' = [args EXCEPT ![r] = NoArgs]
  /\ plan' = [plan EXCEPT ![r] = NoPlan]
  /\ cursor' = [cursor EXCEPT ![r] = Undefined]
  /\ next_cursor' = [next_cursor EXCEPT ![r] = Undefined]
  /\ totalFetched' = [totalFetched EXCEPT ![r] = 0]
  /\ allMeetings' = [allMeetings EXCEPT ![r] = <<>>]
  /\ filteredMeetings' = [filteredMeetings EXCEPT ![r] = <<>>]
  /\ matchingMeetings' = [matchingMeetings EXCEPT ![r] = <<>>]
  /\ finalMeetings' = [finalMeetings EXCEPT ![r] = <<>>]
  /\ response' = [response EXCEPT ![r] = NoResponse]
  /\ fetches' = [fetches EXCEPT ![r] = 0]
  /\ source' = source
  /\ req' = [req EXCEPT ![r] = NoReq]
  /\ res' = [res EXCEPT ![r] = <<>>]

Next ==
  \/ \E a \in ArgsSet : ToolsCall(1, a)
  \/ \E items \in Pages, token \in Cursors \cup {Undefined} :
       FetchOk(1, items, token)
  \/ \E status \in FailureStatuses : FetchFail(1, status)
  \/ Return(1)

Spec == Init /\ [][Next]_vars

\* The same handler under calls that vary the date window, the toggles and
\* the attendees
FilterNext ==
  \/ \E a \in FilterArgsSet : ToolsCall(1, a)
  \/ \E items \in FilterPages, token \in Cursors \cup {Undefined} :
       FetchOk(1, items, token)
  \/ \E status \in FailureStatuses : FetchFail(1, status)
  \/ Return(1)

FilterSpec == Init /\ [][FilterNext]_vars

\* The same handler under calls that look for a word in records carrying
\* it in one field each
MatchNext ==
  \/ \E a \in MatchArgsSet : ToolsCall(1, a)
  \/ \E items \in MatchPages, token \in Cursors \cup {Undefined} :
       FetchOk(1, items, token)
  \/ \E status \in FailureStatuses : FetchFail(1, status)
  \/ Return(1)

MatchSpec == Init /\ [][MatchNext]_vars

\* The endpoint under requests with and without the token, of every method
HttpNext ==
  \/ \E q \in HttpRequests : authenticateSSE(1, q)
  \/ \E items \in FilterPages, token \in Cursors \cup {Undefined} :
       FetchOk(1, items, token)
  \/ \E status \in FailureStatuses : FetchFail(1, status)
  \/ Return(1)

HttpSpec == Init /\ [][HttpNext]_vars

\* The endpoint when every awaited listMeetings call settles
HttpFairSpec ==
  /\ Init
  /\ [][HttpNext]_vars
  /\ WF_vars(\/ \E items \in FilterPages, token \in Cursors \cup {Undefined} : FetchOk(1, items, token)
             \/ \E status \in FailureStatuses : FetchFail(1, status))

\* Every awaited listMeetings call settles: the event loop resumes the
\* handler once the source has answered or the call has failed.
FetchSettles ==
  \/ \E items \in Pages, token \in Cursors \cup {Undefined} :
       FetchOk(1, items, token)
  \/ \E status \in FailureStatuses : FetchFail(1, status)

FairSpec == Init /\ [][Next]_vars /\ WF_vars(FetchSettles)

\* The replies an unchanged source can give: one page per cursor, each with
\* the cursor of the page after it, or none
TwinPages == {<<M1>>, <<M8, M2>>}

Replies == [items : TwinPages, next_cursor : Cursors \cup {Undefined}]

Sources == [Cursors \cup {Undefined} -> Replies]

\* The requests repeated against it: a domain term (exhaustive fetching, with
\* and without a count of last meetings) and a word of a title (single fetch)
TwinTerms ==
  {<<"a","c","m","e",".","f","r">>,
   <<"l","a","s","t"," ","2"," ","a","c","m","e",".","f","r">>,
   <<"b","u","d","g","e","t">>}

TwinArgsSet ==
  {a \in ArgsSet : a.search_term \in TwinTerms /\ a.limit = 0 /\ a.exclude_teams = Undefined}

\* The source answers by what it was asked: another reply when the contents
\* changed in between
SourceChanged(r) ==
  \E items \in TwinPages, token \in Cursors \cup {Undefined} : FetchOk(r, items, token)

\* fathomClient.listMeetings resolves with the page the source holds for the
\* cursor sent (no cursor in the single fetch, the last next_cursor after)
SourceReplies(r) ==
  \E reply \in {source[cursor[r]]} : FetchOk(r, reply.items, reply.next_cursor)

TwinInit ==
  /\ NoRequest
  /\ source \in Sources

\* Two handlers serve requests, one after the other or interleaved at the
\* awaits, against the same unchanged source
TwinNext ==
  \E r \in Handlers :
    \/ \E a \in TwinArgsSet : ToolsCall(r, a)
    \/ SourceReplies(r)
    \/ Return(r)

TwinSpec == TwinInit /\ [][TwinNext]_vars

(***************************************************************************)
(* Properties                                                              *)
(***************************************************************************)

\* the names the security filter always excludes, in lower case
FixedTerms ==
  {<<"e","x","e","c","u","t","i","v","e">>,
   <<"p","e","r","s","o","n","a","l">>,
   <<"n","o"," ","t","e","a","m">>}

\* an owning team that is absent, empty, or contains one of the fixed names
\* whatever the case
FixedExcluded(team) ==
  \/ team = Undefined
  \/ team = <<>>
  \/ \E t \in FixedTerms : includes(toLowerCase(team), t)

C3_ShowingWithinRequestedCount ==
  response[1].kind = "result" =>
    /\ response[1].showing <= response[1].total_found
    /\ response[1].showing <=
         (IF plan[1].isLastRequest THEN plan[1].requestedLastCount
          ELSE Max({0, Min({IF args[1].limit # 0 THEN args[1].limit
                                                ELSE DefaultLimit,
                            MaxLimit})}))

\* C4: exhaustive pagination terminates: whatever the source returns, a
\* request that is fetching eventually produces its response.
C4_PaginationTerminates == (pc[1] = "fetching") ~> (pc[1] = "responded")

\* the records the response returns are finalMeetings, and these are the
\* last k of the matching records in their order
ReturnsLast(k) ==
  LET M == Len(matchingMeetings[1])
  IN /\ response[1].showing = k
     /\ Len(response[1].meetings) = k
     /\ finalMeetings[1] = SubSeq(matchingMeetings[1], M - k + 1, M)
     /\ \A i \in 1..k :
          response[1].meetings[i].title = finalMeetings[1][i].title

C6_LastNFetchesExhaustively ==
  (/\ response[1].kind = "result"
   /\ lastMatch(searchTermOf(args[1])) # Undefined
   /\ parseInt(lastMatch(searchTermOf(args[1]))) >= 1) =>
    \/ next_cursor[1] = Undefined
    \/ Len(allMeetings[1]) >= maxFetchLimit

\* C7: neither the aggregated candidate set nor the returned meetings hold
\* two records with the same recording_id.
C7_NoDuplicateIdentifiers ==
  /\ \A i, j \in 1..Len(allMeetings[1]) :
       i # j => allMeetings[1][i].recording_id # allMeetings[1][j].recording_id
  /\ \A i, j \in 1..Len(finalMeetings[1]) :
       i # j => finalMeetings[1][i].recording_id # finalMeetings[1][j].recording_id

\* C8: a search_meetings call whose search_term is missing or empty issues
\* no fetch and is answered with an error.
C8_MissingTermRejected ==
  (pc[1] # "idle" /\ ~Truthy(args[1].search_term)) =>
    /\ fetches[1] = 0
    /\ pc[1] = "responded" => response[1].kind = "error"

\* C9: a fetch that fails, at any page, ends the request: no further fetch
\* is issued, and the response is an error object with the code -32603 and
\* the message of the failure, without any result payload, whatever the
\* earlier pages delivered.
C9_FetchFailureIsAnError ==
  [][(\E status \in FailureStatuses : FetchFail(1, status)) =>
       /\ pc'[1] = "responded"
       /\ fetches'[1] = fetches[1]
       /\ DOMAIN response'[1] = {"kind", "code", "message"}
       /\ response'[1].kind = "error"
       /\ response'[1].code = -32603
       /\ response'[1].message \in {handleError(st) : st \in FailureStatuses}]_vars

\* C9 witness: the second fetch of a request failed after the first page
\* delivered a record, and the response is the error.
C9_Witness ==
  /\ pc[1] = "responded"
  /\ response[1].kind = "error"
  /\ fetches[1] >= 2
  /\ Len(allMeetings[1]) > 0

\* C10: for a search term that is a single domain token the plan pushes
\* calendar_invitees_domains = [that domain], leaves no residual free text,
\* and every safety-filtered record the source delivered is returned, up to
\* the count, whatever its text fields hold.
C10_DomainOnlyReturnsAllDelivered ==
  (/\ response[1].kind = "result"
   /\ args[1].search_term = <<"a","c","m","e",".","f","r">>) =>
    /\ plan[1].apiParams.calendar_invitees_domains = <<<<"a","c","m","e",".","f","r">>>>
    /\ plan[1].effectiveSearchTermGlobal = Undefined
    /\ matchingMeetings[1] = filteredMeetings[1]
    /\ finalMeetings[1] =
         SubSeq(filteredMeetings[1], 1,
                Min({Len(filteredMeetings[1]), Max({limitOf(args[1]), 0})}))

\* C11: when nothing remains of a truthy search term once the extracted
\* tokens are removed, the text matching is skipped: total_found is the
\* number of records that passed the safety filter.
C11_EmptyResidualSkipsMatching ==
  (/\ response[1].kind = "result"
   /\ Truthy(args[1].search_term)
   /\ plan[1].effectiveSearchTermGlobal = Undefined) =>
    response[1].total_found = Len(filteredMeetings[1])

\* C12: for a search term that holds an e-mail address among other words
\* ("Budget  Bob@Acme.fr"), the plan keeps the address, in lower case, as an
\* attendee filter, pushes its domain to the source as a domain filter, and
\* the residual free text is the other words, the address removed and the
\* white space normalised ("budget").  Without calendar_invitees these are
\* the only attendee filter and the only domain.
C12_EmailAmongWordsIsExtracted ==
  (/\ pc[1] # "idle"
   /\ args[1].search_term =
        <<"B","u","d","g","e","t"," "," ","B","o","b","@","A","c","m","e",".","f","r">>) =>
    /\ \E i \in 1..Len(plan[1].emailsToFilter) :
         plan[1].emailsToFilter[i] = <<"b","o","b","@","a","c","m","e",".","f","r">>
    /\ plan[1].apiParams.calendar_invitees_domains # Undefined
    /\ \E i \in 1..Len(plan[1].apiParams.calendar_invitees_domains) :
         plan[1].apiParams.calendar_invitees_domains[i] = <<"a","c","m","e",".","f","r">>
    /\ plan[1].effectiveSearchTermGlobal = <<"b","u","d","g","e","t">>
    /\ plan[1].freeText = <<"b","u","d","g","e","t">>
    /\ args[1].calendar_invitees = Undefined =>
         /\ plan[1].emailsToFilter = <<<<"b","o","b","@","a","c","m","e",".","f","r">>>>
         /\ plan[1].apiParams.calendar_invitees_domains = <<<<"a","c","m","e",".","f","r">>>>

\* C12 witness: such a call, without calendar_invitees, was answered with a
\* record that has the attendee and the residual text.
C12_Witness ==
  /\ pc[1] = "responded"
  /\ response[1].kind = "result"
  /\ args[1].search_term =
       <<"B","u","d","g","e","t"," "," ","B","o","b","@","A","c","m","e",".","f","r">>
  /\ args[1].calendar_invitees = Undefined
  /\ response[1].total_found >= 1

C14_FiltersAppliedReportsTheFetch ==
  response[1].kind = "result" =>
    /\ response[1].filters_applied.days_back =
         Now - parseInt(plan[1].apiParams.created_after)
    /\ response[1].filters_applied.exclude_teams =
         SelectSeq(allExcludeTeamsOf(args[1].exclude_teams), Truthy)
    /\ response[1].filters_applied.include_summary =
         plan[1].apiParams.include_summary
    /\ response[1].filters_applied.include_action_items =
         plan[1].apiParams.include_action_items
    /\ response[1].filters_applied.include_transcript =
         plan[1].apiParams.include_transcript

\* C15: in every successful response has_more is true exactly when
\* total_found is greater than showing.
C15_HasMoreIffTotalExceedsShowing ==
  response[1].kind = "result" =>
    (response[1].has_more <=> response[1].total_found > response[1].showing)

\* C16: when the aggregation stops because the cap on fetched records is
\* reached while the source still offers a continuation token, the request
\* is answered with a result, not an error, and has_more is true.
C16_CapReachedReportsTruncation ==
  (/\ pc[1] = "responded"
   /\ plan[1].hasSpecificFilters
   /\ totalFetched[1] >= maxFetchLimit
   /\ Truthy(next_cursor[1])) =>
    /\ response[1].kind = "result"
    /\ response[1].has_more

\* C17: for a request that is not a "last N" request the returned meetings
\* are exactly the first min(count, total_found) matching records, in the
\* order of the source, count being the limit of the caller capped at
\* MaxLimit, or DefaultLimit without a limit; never more than MaxLimit.
C17_FirstNReturnsHead ==
  (response[1].kind = "result" /\ ~plan[1].isLastRequest) =>
    /\ finalMeetings[1] =
         SubSeq(matchingMeetings[1], 1,
                Min({Min({IF args[1].limit # 0 THEN args[1].limit ELSE DefaultLimit,
                          MaxLimit}),
                     response[1].total_found}))
    /\ response[1].meetings = formatMeetings(finalMeetings[1], args[1])
    /\ Len(response[1].meetings) <= MaxLimit

\* C18: for a request that is not a "last N" request the pagination is
\* exhaustive exactly when a filter sent to the source narrows the result
\* set (domains, recorded_by, or the teams derived from the search term):
\* with such a filter the fetching stops only on the last page or at the cap,
\* without one the request issues a single fetch.
C18_ExhaustiveIffSourceSideFilter ==
  (/\ pc[1] = "responded"
   /\ response[1].kind = "result"
   /\ ~plan[1].isLastRequest) =>
    IF \/ plan[1].apiParams.calendar_invitees_domains # Undefined
       \/ plan[1].apiParams.recorded_by # Undefined
       \/ plan[1].apiParams.teams # Undefined
    THEN next_cursor[1] = Undefined \/ totalFetched[1] >= maxFetchLimit
    ELSE fetches[1] = 1

\* C19: when the plan holds more than one distinct attendee e-mail the
\* request runs one exhaustive aggregation per e-mail, so it issues at least
\* two fetches, and the aggregated records are merged by identifier; with
\* exactly one e-mail it runs one exhaustive aggregation, which stops only on
\* the last page or at the cap.
C19_OneAggregationPerEmail ==
  (pc[1] = "responded" /\ response[1].kind = "result") =>
    /\ Len(plan[1].emailsToFilter) > 1 =>
         /\ fetches[1] >= 2
         /\ \A i, j \in 1..Len(allMeetings[1]) :
              i # j => allMeetings[1][i].recording_id # allMeetings[1][j].recording_id
    /\ Len(plan[1].emailsToFilter) = 1 =>
         next_cursor[1] = Undefined \/ totalFetched[1] >= maxFetchLimit


C20_WitnessSingleFetch ==
  /\ pc[1] = "responded"
  /\ pc[2] = "responded"
  /\ args[1] = args[2]
  /\ ~plan[1].hasSpecificFilters
  /\ response[1].kind = "result"
  /\ Len(response[1].meetings) > 0


C30_WitnessFewerMatches ==
  /\ response[1].kind = "result"
  /\ plan[1].requestedLastCount = 2
  /\ args[1].limit = 1
  /\ response[1].total_found = 1
  /\ response[1].showing = 1


\* C29: in exhaustive mode no fetch is issued once the number of collected
\* records has reached the fetch cap: every fetch starts with fewer records
\* collected than the cap, and the total collected is at most the cap minus
\* one plus the size of the last page fetched.
C29_NoFetchAtTheCap ==
  [][(pc[1] = "fetching" /\ plan[1].hasSpecificFilters) =>
       /\ totalFetched[1] < maxFetchLimit
       /\ totalFetched'[1] <= (maxFetchLimit - 1) + (totalFetched'[1] - totalFetched[1])]_vars

\* C29 witness: the loop is over with the cap passed by the last page, the
\* largest total the cap allows.
C29_Witness ==
  /\ pc[1] = "responded"
  /\ plan[1].hasSpecificFilters
  /\ Truthy(next_cursor[1])
  /\ totalFetched[1] = (maxFetchLimit - 1) + MaxPageLen


\* C25: in exhaustive mode the first fetch carries no continuation token,
\* every later fetch carries exactly the token returned by the immediately
\* preceding page, and no fetch is issued after a page that returned no
\* token.
C25_FetchCarriesThePreviousToken ==
  [][/\ (pc'[1] = "fetching" /\ plan'[1].hasSpecificFilters /\ pc[1] = "idle") =>
          cursor'[1] = Undefined
     /\ (pc'[1] = "fetching" /\ plan[1].hasSpecificFilters /\ pc[1] = "fetching") =>
          /\ Truthy(next_cursor'[1])
          /\ cursor'[1] = next_cursor'[1]
     /\ (pc[1] = "fetching" /\ plan[1].hasSpecificFilters /\ ~Truthy(next_cursor'[1])) =>
          pc'[1] # "fetching"]_vars

\* C25 witness: the third fetch of an exhaustive request is pending with
\* the token of the second page, which differs from the token of the first.
C25_Witness ==
  /\ pc[1] = "fetching"
  /\ plan[1].hasSpecificFilters
  /\ fetches[1] = 3
  /\ totalFetched[1] = 2
  /\ cursor[1] = <<"c","2">>
  /\ cursor[1] = next_cursor[1]


\* the texts of a record the matching may read: title, alternate title,
\* summary, action-item descriptions, attendees' names and addresses, and
\* transcript entries, as far as the record carries them
TextsOf(m) ==
  ({m.title, m.meeting_title, m.summary}
     \cup (IF m.action_items = Undefined THEN {} ELSE {m.action_items[i] : i \in 1..Len(m.action_items)})
     \cup {m.calendar_invitees[i].name : i \in 1..Len(m.calendar_invitees)}
     \cup {m.calendar_invitees[i].email : i \in 1..Len(m.calendar_invitees)}
     \cup (IF m.transcript = Undefined THEN {} ELSE {m.transcript[i] : i \in 1..Len(m.transcript)}))
  \ {Undefined}

\* the term is a case-insensitive substring of one of the texts of the record
Hit(m, term) ==
  \E text \in TextsOf(m) : includes(toLowerCase(text), toLowerCase(term))

\* C23: with a non-empty residual term, a safety-filtered record is in the
\* match set if and only if the term is a case-insensitive substring of at
\* least one of: title, alternate title, summary text, some action-item
\* description, some attendee's name or email, or some transcript entry's
\* text when the record carries a transcript.
C23_MatchIffSomeFieldHolds ==
  (/\ response[1].kind = "result"
   /\ plan[1].effectiveSearchTermGlobal # Undefined) =>
    matchingMeetings[1] =
      SelectSeq(filteredMeetings[1], LAMBDA m : Hit(m, plan[1].effectiveSearchTermGlobal))

\* C23 witness: of two safety-filtered records the one with the word in an
\* action item alone is matched and the one without it in any field is not.
C23_Witness ==
  /\ response[1].kind = "result"
  /\ plan[1].effectiveSearchTermGlobal = <<"b","u","d","g","e","t">>
  /\ filteredMeetings[1] = <<M16, M12>>
  /\ matchingMeetings[1] = <<M12>>

\* C23 witness of the transcript: a record with the word in a transcript
\* entry alone is matched, whether or not the call asked for transcripts.
C23_WitnessTranscript ==
  /\ response[1].kind = "result"
  /\ ~args[1].include_transcript
  /\ filteredMeetings[1] = <<M15>>
  /\ matchingMeetings[1] = <<M15>>

\* C23 witness of the other fields: the records with the word in the
\* alternate title, the summary, an attendee's name and an attendee's
\* address alone are matched.
C23_WitnessAlternateTitle == response[1].kind = "result" /\ matchingMeetings[1] = <<M10>>
C23_WitnessSummary == response[1].kind = "result" /\ matchingMeetings[1] = <<M11>>
C23_WitnessAttendeeName == response[1].kind = "result" /\ matchingMeetings[1] = <<M13>>
C23_WitnessAttendeeEmail == response[1].kind = "result" /\ matchingMeetings[1] = <<M14>>


\* C27: when at least one attendee email is in the plan (extracted from the
\* search term, given by an @agent directive, or supplied as a valid
\* calendar_invitees entry), every returned record has at least one attendee
\* whose email equals one of those emails case-insensitively; a record that
\* only shares the email's domain is not returned.
C27_ReturnedRecordsHaveAPlannedAttendee ==
  (/\ response[1].kind = "result"
   /\ Len(plan[1].emailsToFilter) > 0) =>
    \A i \in 1..Len(response[1].meetings) :
      \E j \in 1..Len(response[1].meetings[i].attendees) :
        /\ response[1].meetings[i].attendees[j].email # Undefined
        /\ \E k \in 1..Len(plan[1].emailsToFilter) :
             toLowerCase(response[1].meetings[i].attendees[j].email)
               = toLowerCase(plan[1].emailsToFilter[k])

\* C27 witness: the search term names Bob's address; the source delivered a
\* page of two records with the word, one attended by Bob and one by Eve of
\* the same domain, and the response returns the first alone.
C27_Witness ==
  /\ response[1].kind = "result"
  /\ args[1].calendar_invitees = Undefined
  /\ plan[1].emailsToFilter = <<<<"b","o","b","@","a","c","m","e",".","f","r">>>>
  /\ fetches[1] = 1
  /\ totalFetched[1] = 2
  /\ allMeetings[1] = <<M1>>
  /\ Len(response[1].meetings) = 1
  /\ response[1].meetings[1].attendees = <<Bob>>

\* C27 witness of calendar_invitees: of the entries "Eve" and
\* "Eve@acme.fr" the second is an address; a record attended by Eve is
\* returned to a search for the word.
C27_WitnessCalendarInvitees ==
  /\ response[1].kind = "result"
  /\ args[1].search_term = <<"b","u","d","g","e","t">>
  /\ plan[1].emailsToFilter = <<<<"E","v","e","@","a","c","m","e",".","f","r">>>>
  /\ Len(response[1].meetings) = 1
  /\ response[1].meetings[1].attendees = <<Eve>>


\* the records of the first n pages of a source, followed from the page
\* without token along the tokens the pages return
RECURSIVE pagesAlong(_, _, _)
pagesAlong(src, token, n) ==
  IF n = 0 THEN <<>>
  ELSE src[token].items \o pagesAlong(src, src[token].next_cursor, n - 1)

\* the elements of one sequence appear in the other in the same order
RECURSIVE IsSubsequence(_, _)
IsSubsequence(sub, seq) ==
  IF sub = <<>> THEN TRUE
  ELSE IF seq = <<>> THEN FALSE
  ELSE IF Head(sub) = Head(seq) THEN IsSubsequence(Tail(sub), Tail(seq))
  ELSE IsSubsequence(sub, Tail(seq))

\* C26: the returned meetings are always a subsequence of the order in
\* which the source delivered the records, page by page in page order; the
\* email filter, the safety filter, the matching and the limit never
\* reorder records.
C26_ReturnedOrderIsDeliveredOrder ==
  \A r \in Handlers :
    response[r].kind = "result" =>
      /\ IsSubsequence(finalMeetings[r], pagesAlong(source, Undefined, fetches[r]))
      /\ response[r].meetings = formatMeetings(finalMeetings[r], args[r])
      /\ IsSubsequence(finalMeetings[r], matchingMeetings[r])
      /\ IsSubsequence(matchingMeetings[r], filteredMeetings[r])
      /\ IsSubsequence(filteredMeetings[r], allMeetings[r])
      /\ IsSubsequence(allMeetings[r], pagesAlong(source, Undefined, fetches[r]))

\* C26 witness: the source delivered a page of two records and then a page
\* of one; the response returns the first record of the first page and the
\* record of the second, in that order.
C26_Witness ==
  /\ response[1].kind = "result"
  /\ fetches[1] = 2
  /\ pagesAlong(source, Undefined, 2) = <<M8, M2, M1>>
  /\ finalMeetings[1] = <<M8, M1>>
  /\ Len(response[1].meetings) = 2


\* the number of fetches an exhaustive request issues when it runs alone
\* against a source
RECURSIVE fetchesAlone(_, _, _)
fetchesAlone(src, token, total) ==
  IF loopContinues(total + Len(src[token].items), src[token].next_cursor)
  THEN 1 + fetchesAlone(src, src[token].next_cursor, total + Len(src[token].items))
  ELSE 1

\* the token a request sends with its fetch number n + 1
RECURSIVE tokenAfter(_, _)
tokenAfter(src, n) ==
  IF n = 0 THEN Undefined ELSE src[tokenAfter(src, n - 1)].next_cursor

\* the records a request collects when it runs alone against a source
collectedAlone(a, src) ==
  IF planTable[a].hasSpecificFilters
  THEN pagesAlong(src, Undefined, fetchesAlone(src, Undefined, 0))
  ELSE src[Undefined].items

\* the records it matches
matchingAlone(a, src) ==
  matchEngine(securityFilter(emailFilter(collectedAlone(a, src), planTable[a].emailsToFilter), a), planTable[a].freeText)

\* the response to a request with these matches
resultOf(a, matching) ==
  searchResult(matching, resultShaper(matching, a, planTable[a]), a, planTable[a])

\* the response a request produces when it runs alone against a source
responseAlone(a, src) == resultOf(a, matchingAlone(a, src))

\* C22: when two search requests are in flight and their steps interleave
\* at the fetch await points in any order, each request's response is the
\* one it would produce if it ran alone; no record, filter or cursor of one
\* request appears in the plan, the fetches or the result of the other.
C22_RequestIsolation ==
  \A r \in Handlers :
    /\ pc[r] # "idle" => plan[r] = planTable[args[r]]
    /\ (pc[r] = "fetching" /\ plan[r].hasSpecificFilters) =>
         /\ cursor[r] = tokenAfter(source, fetches[r] - 1)
         /\ allMeetings[r] = pagesAlong(source, Undefined, fetches[r] - 1)
    /\ (pc[r] = "fetching" /\ ~plan[r].hasSpecificFilters) =>
         /\ cursor[r] = Undefined
         /\ allMeetings[r] = <<>>
    /\ pc[r] = "responded" => response[r] = responseAlone(args[r], source)

\* C22 witness: both requests have responded while the other was in flight
\* with other arguments, one after two fetches and one after a single
\* fetch; both return meetings and the responses differ.
C22_Witness ==
  /\ pc[1] = "responded"
  /\ pc[2] = "responded"
  /\ args[1] # args[2]
  /\ plan[1].hasSpecificFilters
  /\ ~plan[2].hasSpecificFilters
  /\ fetches[1] = 2
  /\ Len(response[1].meetings) > 0
  /\ Len(response[2].meetings) > 0
  /\ response[1].meetings # response[2].meetings


\* the scheme that introduces a bearer token in an Authorization header
BearerPrefix == <<"B","e","a","r","e","r"," ">>

\* the bearer token a header presents: what follows "Bearer ", and nothing
\* when the header is absent or of another scheme
bearerCredentialOf(authHeader) ==
  IF /\ authHeader # Undefined
     /\ Len(authHeader) >= Len(BearerPrefix)
     /\ SubSeq(authHeader, 1, Len(BearerPrefix)) = BearerPrefix
  THEN SubSeq(authHeader, Len(BearerPrefix) + 1, Len(authHeader))
  ELSE <<>>

\* the handler has not run for the request: no plan, no fetch, no payload
HandlerNotRun ==
  /\ pc[1] = "responded"
  /\ plan[1] = NoPlan
  /\ fetches[1] = 0
  /\ response[1].kind = "none"

\* C21: a request to the MCP endpoint without a bearer token gets 401 and
\* one with a token different from MCP_BEARER_TOKEN gets 403; in both cases
\* the MCP handler is not run, so no fetch to the record source is issued
\* and no meeting data is returned.
C21_UnauthenticatedRequestsAreRejected ==
  pc[1] # "idle" =>
    /\ bearerCredentialOf(req[1].authorization) = <<>> =>
         (res[1] = <<plain(401)>> /\ HandlerNotRun)
    /\ bearerCredentialOf(req[1].authorization) \notin {<<>>, bearerToken} =>
         (res[1] = <<plain(403)>> /\ HandlerNotRun)


\* C24: every JSON-RPC response to a tools/call request, whether a success
\* result or an error object, carries exactly the id of the request that
\* caused it, unchanged.
C24_ResponseCarriesTheRequestId ==
  req[1].method = "tools/call" =>
    \A i \in 1..Len(res[1]) :
      res[1][i].kind \in {"result", "error"} => res[1][i].id = req[1].id

\* C24 witness: a search sent with id 2 is answered with meetings in an
\* envelope of id 2.
C24_Witness ==
  /\ req[1].method = "tools/call"
  /\ req[1].id = 2
  /\ response[1].kind = "result"
  /\ Len(response[1].meetings) > 0
  /\ res[1] = <<rpcResult(2)>>

\* C24 witness of the error object: a search sent with id 2 whose fetch
\* failed is answered with an error envelope of id 2.
C24_WitnessError ==
  /\ req[1].method = "tools/call"
  /\ req[1].id = 2
  /\ fetches[1] = 1
  /\ response[1].kind = "error"
  /\ res[1] = <<rpcError(2)>>


\* the request being served passed authenticateSSE
Authenticated == pc[1] # "idle" /\ rejectionOf(tokenOf(req[1].authorization)) = 0

\* the response each path of the handler sends
ExpectedResponse ==
  IF req[1].method \in {"initialize", "tools/list"} THEN res[1] = <<rpcResult(req[1].id)>>
  ELSE IF req[1].method = "notifications/initialized" THEN res[1] = <<plain(200)>>
  ELSE IF req[1].method # "tools/call" THEN res[1] = <<plain(400)>>
  ELSE IF ~req[1].hasParams THEN res[1] = <<plain(500)>>
  ELSE IF req[1].name # "search_meetings" THEN res[1] = <<rpcError(req[1].id)>>
  ELSE res[1] \in {<<rpcResult(req[1].id)>>, <<rpcError(req[1].id)>>}

\* at most one response is ever sent, none while a fetch is awaited, and a
\* handler that has responded sent the response of its path
OneResponsePerPath ==
  /\ Len(res[1]) <= 1
  /\ pc[1] = "fetching" => res[1] = <<>>
  /\ (Authenticated /\ pc[1] = "responded") => ExpectedResponse

\* the handler finishes only after one response
FinishesAfterResponding ==
  [][(pc[1] # "idle" /\ pc'[1] = "idle") => Len(res[1]) = 1]_vars

\* a request that is being served is eventually answered
EveryRequestIsAnswered == (pc[1] # "idle") ~> (pc[1] = "responded" /\ Len(res[1]) = 1)

\* C28: every authenticated request receives exactly one HTTP response on
\* every path: initialize, notifications/initialized, tools/list, tools/call
\* success, tools/call failure (unknown tool or failed fetch, as a JSON-RPC
\* error with code -32603), unknown method (400) and malformed request such
\* as tools/call without params (500); the handler never responds twice and
\* never finishes without responding.
C28_ExactlyOneResponse ==
  /\ []OneResponsePerPath
  /\ FinishesAfterResponding
  /\ EveryRequestIsAnswered

====
